---- MODULE Spec2Model ----
(***************************************************************************)
(* A model of the audio core and of the hook generator of the INHOUSE      *)
(* SoundLab application (src/inhouse_soundlab/app.py).                     *)
(*                                                                         *)
(* Four specifications share this module, one per part of the program:     *)
(*   SpecPitch  _note_to_frequency applied to bounded note tokens          *)
(*   SpecWav    _write_wav applied to bounded sample buffers               *)
(*   SpecTrack  page runs (main), generate_drum_audio and                  *)
(*              generate_melody_audio, called from two sessions            *)
(*   SpecHooks  hook_generator over a sequence of page runs                *)
(*                                                                         *)
(* Strings are ASCII: "#" stands for the sharp sign U+266F, "b" for the    *)
(* flat sign U+266D, and "Hi~hat" for the label the source spells with a   *)
(* non-breaking hyphen U+2011 (lines 157, 162, 238), which differs from    *)
(* the key "Hi-hat" of HIPHOP_SAMPLES (line 35, ASCII hyphen).             *)
(* generate_melody_audio (lines 115-127) and main (lines 266-321) are no   *)
(* valid Python as they stand and are modelled as what they are: functions *)
(* that are never defined, so that a call of them fails and does nothing.  *)
(* A generate_drum_audio call is a sequence of steps, one per event of     *)
(* each of its two loops, and the calls of the two sessions interleave.    *)
(***************************************************************************)
EXTENDS Integers, Sequences, FiniteSets, TLC

VARIABLES
    part,            \* the part of the program that is exercised
    note,            \* the token handed to _note_to_frequency
    noteRes,         \* what _note_to_frequency did with it
    samples,         \* the buffer handed to _write_wav
    wavRes,          \* what _write_wav did with it
    CUSTOM_SAMPLES,  \* the module-level dictionary of line 45
    np_random,       \* numpy's global generator, which line 163 draws from
    out,             \* per session, the call in progress or finished
    session_state,   \* st.session_state of the hook generator's session
    shown,           \* the hook st.success displayed in the last run
    clicks,          \* 'Generate Hook' clicks so far
    lastDraw         \* what the last click saw when it drew

vars == <<part, note, noteRes, samples, wavRes, CUSTOM_SAMPLES, np_random, out,
          session_state, shown, clicks, lastDraw>>

pitchVars == <<note, noteRes>>
wavVars   == <<samples, wavRes>>
trackVars == <<CUSTOM_SAMPLES, np_random, out>>
hookVars  == <<session_state, shown, clicks, lastDraw>>

(***************************************************************************)
(* Bounds of the model.                                                    *)
(***************************************************************************)
MaxTokenLen == 3
MaxBufLen == 3
MaxAmp == 2
MaxPattern == 2
MaxQuarters == 1
MaxUploads == 1
MaxDrawn == 1
MaxClicks == 25

\* Sequences over S of length at most n.
SeqUpTo(S, n) == UNION {[1..k -> S] : k \in 0..n}

(***************************************************************************)
(* _note_to_frequency (lines 80-97)                                        *)
(***************************************************************************)
NoteLetters == {"C", "D", "E", "F", "G", "A", "B"}

note_map ==
    [l \in NoteLetters |->
        CASE l = "C" -> 0 [] l = "D" -> 2 [] l = "E" -> 4 [] l = "F" -> 5
          [] l = "G" -> 7 [] l = "A" -> 9 [] l = "B" -> 11]

Accidentals == {"#", "b"}

Digits == {"0", "1", "2", "3", "4", "5", "6", "7", "8", "9"}

\* A decimal digit outside ASCII, which int() accepts as well: "u4" stands for
\* U+0664, ARABIC-INDIC DIGIT FOUR.
AnyDigits == Digits \cup {"u4"}

DigitVal(ch) ==
    CASE ch = "0" -> 0 [] ch = "1" -> 1 [] ch = "2" -> 2 [] ch = "3" -> 3
      [] ch = "4" -> 4 [] ch = "5" -> 5 [] ch = "6" -> 6 [] ch = "7" -> 7
      [] ch = "8" -> 8 [] ch = "9" -> 9 [] ch = "u4" -> 4

Signs == {"+", "-"}

\* The characters a token is made of: the seven letters, a letter that is no
\* note name, the two accidentals, the digits, and what int() makes a
\* difference of: a character it rejects, a blank, the signs, the underscore.
TokenChars ==
    NoteLetters \cup {"H"} \cup Accidentals \cup AnyDigits
    \cup {"x", " ", "_"} \cup Signs

\* The least and the greatest member of a non-empty set of positions.
First(S) == CHOOSE i \in S : \A j \in S : i <= j
Last(S) == CHOOSE i \in S : \A j \in S : j <= i

\* The positions of s whose character is not in the set C.
Outside(s, C) == {i \in 1..Len(s) : s[i] \notin C}

\* s without the members of C that lead it, and without those that end it.
StripLeft(s, C) ==
    IF Outside(s, C) = {} THEN <<>> ELSE SubSeq(s, First(Outside(s, C)), Len(s))

StripRight(s, C) ==
    IF Outside(s, C) = {} THEN <<>> ELSE SubSeq(s, 1, Last(Outside(s, C)))

\* The digits of an int() literal: a digit first and last, digits and single
\* underscores between.
DigitGroup(s) ==
    /\ s # <<>>
    /\ s[1] \in AnyDigits
    /\ s[Len(s)] \in AnyDigits
    /\ \A i \in 1..Len(s) : s[i] \in AnyDigits \cup {"_"}
    /\ \A i \in 1..(Len(s) - 1) : ~(s[i] = "_" /\ s[i + 1] = "_")

\* int() refuses a literal of more digits than sys.int_max_str_digits, 4300
\* unless the interpreter is told otherwise; underscores, sign and blanks do
\* not count, leading zeros do.
IntMaxStrDigits == 4300

\* An integer of Python has no width.  It is kept as its sign and the decimal
\* digits of its magnitude, the most significant first and no zero leading
\* (zero has no digit).
StripZeros(d) == StripLeft(d, {0})

\* The digits d after n - Len(d) leading zeros.
Pad(d, n) == [i \in 1..n |-> IF i <= n - Len(d) THEN 0 ELSE d[i - (n - Len(d))]]

\* The digits of a + b: a place receives a carry when a lower place
\* overflows and every place between passes the carry on.
Sum(a, b) ==
    LET n == (IF Len(a) > Len(b) THEN Len(a) ELSE Len(b)) + 1
        x == Pad(a, n)
        y == Pad(b, n)
        carry(i) == \E j \in (i + 1)..n :
                        /\ x[j] + y[j] >= 10
                        /\ \A k \in (i + 1)..(j - 1) : x[k] + y[k] = 9
    IN  StripZeros([i \in 1..n |->
                      (x[i] + y[i] + (IF carry(i) THEN 1 ELSE 0)) % 10])

\* The digits of 12 * a.
TimesTwelve(a) == Sum(Append(a, 0), Sum(a, a))

\* a >= b, for digits a and b.
DigitsGE(a, b) ==
    \/ Len(a) > Len(b)
    \/ /\ Len(a) = Len(b)
       /\ \/ a = b
          \/ \E i \in 1..Len(a) :
                a[i] > b[i] /\ \A j \in 1..(i - 1) : a[j] = b[j]

RECURSIVE DigitsValue(_)
\* The number that digits of at most MachineDigits places stand for, and the
\* digits of a natural number.
DigitsValue(d) ==
    IF d = <<>> THEN 0
    ELSE 10 * DigitsValue(SubSeq(d, 1, Len(d) - 1)) + d[Len(d)]

RECURSIVE NatDigits(_)
NatDigits(c) == IF c = 0 THEN <<>> ELSE Append(NatDigits(c \div 10), c % 10)

\* The value of an octave of at most this many digits, and the offset of line
\* 96 with it, are computed in the integers of the model; a longer octave
\* stays in digits.
MachineDigits == 8

NoInt == [ok |-> FALSE, neg |-> FALSE, mag |-> <<>>]

\* int(text) of Python: blanks around are stripped, one sign may lead, the
\* rest is a digit group; anything else raises ValueError.
PyInt(text) ==
    LET t == StripRight(StripLeft(text, {" "}), {" "})
        signed == t # <<>> /\ t[1] \in Signs
        body == IF signed THEN Tail(t) ELSE t
        ds == SelectSeq(body, LAMBDA ch : ch \in AnyDigits)
        mag == StripZeros([i \in 1..Len(ds) |-> DigitVal(ds[i])])
    IN  IF DigitGroup(body) /\ Len(ds) <= IntMaxStrDigits
        THEN [ok |-> TRUE, neg |-> signed /\ t[1] = "-" /\ mag # <<>>,
              mag |-> mag]
        ELSE NoInt

DefaultOctave == [ok |-> TRUE, neg |-> FALSE, mag |-> <<4>>]

\* A mutation of ParseOctave: a suffix int() rejects falls back to octave 4.
ParseOctaveLenient(octave_part) ==
    IF octave_part = <<>> THEN DefaultOctave
    ELSE IF PyInt(octave_part).ok THEN PyInt(octave_part)
    ELSE DefaultOctave

\* Line 90: octave = int(octave_part) if octave_part else 4.
ParseOctave(octave_part) ==
    IF octave_part = <<>> THEN DefaultOctave ELSE PyInt(octave_part)

\* The integer a short literal stands for.
IntOf(n) == IF n.neg THEN -DigitsValue(n.mag) ELSE DigitsValue(n.mag)

\* Lines 83-89: the last accidental character of the suffix wins, "" if none.
AccidentalOf(rest) ==
    LET at == {i \in 1..Len(rest) : rest[i] \in Accidentals}
    IN  IF at = {} THEN "" ELSE rest[Last(at)]

\* Lines 83-89: every other character of the suffix, in order.
OctavePartOf(rest) == SelectSeq(rest, LAMBDA ch : ch \notin Accidentals)

\* A mutation of ApplyAccidental: the flat is not lowered.
ApplyAccidentalNoFlat(semitone, accidental) ==
    IF accidental = "#" THEN semitone + 1 ELSE semitone

\* Lines 92-95.
ApplyAccidental(semitone, accidental) ==
    IF accidental = "#" THEN semitone + 1
    ELSE IF accidental = "b" THEN semitone - 1
    ELSE semitone

\* Line 96.
OffsetFromA4(semitone, octave) == semitone + (octave - 4) * 12 - 9

\* 440 * 2^(k/12) for k = 0..11, in hundredths of a hertz.
EqualTemperament ==
    <<44000, 46616, 49388, 52325, 55437, 58733,
      62225, 65926, 69846, 73999, 78399, 83061>>

\* The range of a double: 2 ** x raises OverflowError from x = 1024 on, the
\* product with 440.0 is inf from offset 12183 on (no exception), 2 ** x is
\* 0.0 from x = -1075 down, and below x = -1022 it is subnormal: a multiple
\* of 2^-1074.
OverflowOffset == 12288
InfiniteOffset == 12183
ZeroOffset == -12900

\* Up to this offset 2 ** x is less than 2^20 units of 2^-1074 and the
\* rounding to a whole number of units is computed; above it the rounding
\* changes the pitch by less than one part in 2^21, which is below what
\* EqualTemperament resolves.
RoundedOffset == -12649

Infinite == [centi |-> 1, exp |-> 1024]

\* floor(2^(k/12) * 2^30) for k = 0..11.
TwelfthRoots ==
    <<1073741824, 1137589835, 1205234447, 1276901416, 1352829926, 1433273379,
      1518500249, 1608794973, 1704458900, 1805811301, 1913190429, 2026954652>>

\* 2 ** (offset / 12) in units of 2^-1074, rounded to nearest as the double
\* is, for ZeroOffset < offset <= RoundedOffset.
SubnormalUnits(offset) ==
    LET q == (offset \div 12) + 1074
        root == TwelfthRoots[(offset % 12) + 1]
    IN  IF q < 0 THEN 1
        ELSE (root \div 2^(30 - q))
             + (IF root % 2^(30 - q) >= 2^(29 - q) THEN 1 ELSE 0)

\* Line 97: 440.0 * 2 ** (offset / 12), kept as centi * 2^exp hundredths of a
\* hertz.  440 units of 2^-1074 are 1375 units of 2^-1069 hundredths.
Frequency(offset) ==
    IF offset >= InfiniteOffset THEN Infinite
    ELSE IF offset <= ZeroOffset THEN [centi |-> 0, exp |-> 0]
    ELSE IF offset <= RoundedOffset
    THEN [centi |-> 1375 * SubnormalUnits(offset), exp |-> -1069]
    ELSE [centi |-> EqualTemperament[(offset % 12) + 1], exp |-> offset \div 12]

NoFrequency == [centi |-> 0, exp |-> 0]

NoteFailure(kind) ==
    [status |-> kind, octave |-> 0, semitone |-> 0, offset |-> 0,
     freq |-> NoFrequency]

\* The digits of 12 * (2^1024 - 2^970): offset / 12 raises OverflowError when
\* the magnitude of the offset is this or more, the quotient being rounded
\* out of the range of a double.
DivisionOverflow ==
    <<2, 1, 5, 7, 2, 3, 1, 7, 6, 1, 8, 3, 4, 7, 7, 8, 9, 6, 9, 5, 2, 4, 7, 4, 7, 6, 5, 6, 8, 6, 3,
      6, 4, 0, 9, 8, 0, 9, 5, 9, 2, 0, 9, 5, 9, 2, 5, 2, 0, 4, 5, 3, 9, 2, 3, 2, 3, 4, 0, 8, 5, 3,
      4, 7, 7, 6, 5, 3, 3, 9, 6, 1, 9, 5, 1, 3, 1, 7, 7, 0, 1, 1, 3, 5, 9, 7, 8, 8, 2, 1, 5, 7, 3,
      1, 0, 4, 6, 4, 8, 5, 1, 5, 5, 9, 6, 3, 4, 3, 7, 0, 0, 0, 3, 1, 4, 6, 5, 4, 9, 3, 1, 3, 5, 8,
      6, 6, 6, 5, 7, 4, 2, 2, 3, 2, 8, 4, 8, 3, 1, 5, 6, 7, 8, 8, 9, 8, 6, 4, 0, 5, 8, 0, 6, 9, 8,
      4, 8, 1, 8, 2, 9, 0, 6, 8, 2, 4, 0, 0, 8, 5, 0, 0, 6, 0, 4, 1, 1, 5, 2, 8, 6, 2, 5, 8, 1, 4,
      9, 8, 1, 2, 5, 3, 8, 3, 8, 1, 1, 7, 3, 7, 0, 8, 7, 6, 3, 2, 4, 0, 8, 3, 8, 2, 6, 6, 8, 5, 6,
      4, 0, 3, 5, 1, 5, 4, 7, 4, 1, 1, 4, 9, 7, 7, 8, 3, 8, 3, 3, 0, 0, 1, 9, 2, 3, 7, 7, 0, 3, 5,
      1, 2, 6, 2, 8, 8, 9, 0, 0, 2, 1, 3, 3, 2, 3, 8, 6, 1, 2, 8, 4, 5, 2, 1, 1, 2, 5, 3, 8, 7, 1,
      6, 3, 9, 4, 0, 9, 7, 1, 1, 6, 5, 1, 4, 5, 6, 2, 1, 3, 4, 8, 5, 0, 0, 9, 3, 9, 7, 3, 5, 0, 4>>

\* Lines 96-97 for an octave of more than MachineDigits digits.  Above, 2 ** x
\* raises OverflowError (or the division does); below, the offset is
\* -(12 * |octave| + 57 - semitone) and the frequency 0.0 unless the division
\* raises.
LongOctave(oct, semitone) ==
    LET offset == [neg |-> TRUE,
                   mag |-> Sum(TimesTwelve(oct.mag), NatDigits(57 - semitone))]
    IN  IF ~oct.neg \/ DigitsGE(offset.mag, DivisionOverflow)
        THEN NoteFailure("OverflowError")
        ELSE [status |-> "ok", octave |-> [neg |-> TRUE, mag |-> oct.mag],
              semitone |-> semitone, offset |-> offset,
              freq |-> [centi |-> 0, exp |-> 0]]

_note_to_frequency(token) ==
    IF token = <<>> THEN NoteFailure("IndexError")            \* note[0], line 82
    ELSE LET letter == token[1]
             rest == Tail(token)
             accidental == AccidentalOf(rest)
             oct == ParseOctave(OctavePartOf(rest))
         IN  IF ~oct.ok THEN NoteFailure("ValueError")        \* line 90
             ELSE IF letter \notin DOMAIN note_map
                  THEN NoteFailure("KeyError")                \* line 91
             ELSE LET semitone == ApplyAccidental(note_map[letter], accidental)
                  IN  IF Len(oct.mag) > MachineDigits
                      THEN LongOctave(oct, semitone)
                      ELSE
                      LET offset == OffsetFromA4(semitone, IntOf(oct))
                      IN  IF offset >= OverflowOffset
                          THEN NoteFailure("OverflowError")   \* line 97
                          ELSE
                          [status |-> "ok", octave |-> IntOf(oct),
                           semitone |-> semitone, offset |-> offset,
                           freq |-> Frequency(offset)]

NotResolved == NoteFailure("pending")

(***************************************************************************)
(* _write_wav (lines 104-113)                                              *)
(*                                                                         *)
(* A float sample is modelled by an integer of -MaxAmp..MaxAmp: the        *)
(* function divides by the peak, so only the ratios matter.                *)
(***************************************************************************)
PCM_SCALE == 32767

Abs(x) == IF x < 0 THEN -x ELSE x

RECURSIVE PeakOf(_)
\* np.max(np.abs(samples)) of a non-empty buffer.
PeakOf(buf) ==
    IF Len(buf) = 1 THEN Abs(buf[1])
    ELSE LET p == PeakOf(Tail(buf))
         IN  IF Abs(buf[1]) > p THEN Abs(buf[1]) ELSE p

\* np.int16(x) of a finite float x = a / b, b > 0: truncation toward zero.
TruncDiv(a, b) == IF a >= 0 THEN a \div b ELSE -((-a) \div b)

\* 0.0 / 0.0 is NaN (numpy warns, it does not raise), and np.int16(NaN) is
\* undefined by C: what the cast yields depends on the build.
NaNCast == {0, -32768}

\* Line 105 for one sample of a buffer with peak > 0.
Quantize(s, peak) == TruncDiv(s * PCM_SCALE, peak)

WavPending ==
    [status |-> "pending", peak |-> 0, zero_division |-> FALSE, pcm |-> <<>>]

_write_wav(buf, nan_cast) ==
    IF buf = <<>>
    THEN \* np.max of an empty array raises ValueError (line 105)
         [status |-> "ValueError", peak |-> 0, zero_division |-> FALSE,
          pcm |-> <<>>]
    ELSE LET peak == PeakOf(buf)
         IN  [status |-> "ok", peak |-> peak, zero_division |-> (peak = 0),
              pcm |-> [i \in 1..Len(buf) |->
                          IF peak = 0 THEN nan_cast ELSE Quantize(buf[i], peak)]]

(***************************************************************************)
(* get_sample, main, generate_drum_audio and generate_melody_audio         *)
(* (lines 45-67, 115-168, 266-324)                                         *)
(*                                                                         *)
(* A decoded sample is [len, sr, owner]: its length, its native rate and   *)
(* who supplied it (a session, or "net" for a download).  A duration is a  *)
(* number q of quarter seconds, so int(sample_rate * duration) is          *)
(* (SampleRate * q) \div 4.                                                *)
(***************************************************************************)
SampleRate == 44100

Sessions == {"s1", "s2"}

\* Keys of HIPHOP_SAMPLES that hold one URL (lines 33-35).
HiphopDrumKeys == {"Kick", "Snare", "Hi-hat"}

\* file.name of an uploaded file: the uploader accepts wav, mp3 and ogg only
\* (line 293), so an uploaded name carries its extension.
UploadNames == {"Kick.wav"}

\* What sf.read can decode: a short clip at another rate, a long clip at
\* 44.1 kHz, an empty clip at another rate.
UploadShapes ==
    {[len |-> 1, sr |-> 22050], [len |-> 30000, sr |-> SampleRate]}

SampleShapes == UploadShapes \cup {[len |-> 0, sr |-> 22050]}

\* The files the uploader of a page holds.
UploadFiles == [name : UploadNames, shape : UploadShapes]

Owned(shape, who) == [len |-> shape.len, sr |-> shape.sr, owner |-> who]

NoSample == [len |-> 0, sr |-> 0, owner |-> "nobody"]

\* What one call of load_sample (lines 47-52) comes to: the download or the
\* decoding raises, or a sample is returned.
Downloads ==
    {[kind |-> "raise", len |-> 0, sr |-> 0]}
    \cup {[kind |-> "data", len |-> sh.len, sr |-> sh.sr] : sh \in SampleShapes}

\* The entry of a lookup that never reaches load_sample.
NoDownload == [kind |-> "unused", len |-> 0, sr |-> 0]

\* Line 45.
EmptyDict == [n \in {} |-> NoSample]

\* Event tokens a caller may pass: the three classes as HIPHOP_SAMPLES spells
\* them, the hi-hat label as the synthesis code spells it, a label that is no
\* drum class, and the name of an uploaded file.
DrumTokens == {"Kick", "Snare", "Hi-hat", "Hi~hat", "Cowbell"} \cup UploadNames

MelodyTokens == {<<"A", "4">>, <<"C", "#", "4">>}

\* get_sample (lines 54-67); the result is [kind, sample] with kind one of
\* "sample" (a pair is returned), "none" ((None, None)), "raise".
get_sample(name, custom, download) ==
    IF name \in DOMAIN custom
    THEN [kind |-> "sample", sample |-> custom[name]]
    ELSE IF name = "Melody" \/ name \in HiphopDrumKeys
    THEN IF download.kind # "data"
         THEN [kind |-> "raise", sample |-> NoSample]
         ELSE [kind |-> "sample", sample |-> Owned(download, "net")]
    ELSE [kind |-> "none", sample |-> NoSample]

\* Whether get_sample(name) reaches load_sample.
ReachesDownload(name, custom) ==
    name \notin DOMAIN custom /\ (name = "Melody" \/ name \in HiphopDrumKeys)

TargetLen(q) == (SampleRate * q) \div 4

\* A pitch of n hertz, as Frequency gives pitches.
Hz(n) == [centi |-> n * 100, exp |-> 0]

\* The generator np.random of the process: the doubles drawn from it so far,
\* and the sessions whose calls drew them.  What a draw returns is a function
\* of the doubles drawn before it.
Unused == [pos |-> 0, writers |-> {}]

\* The noise entry of a segment that is no noise.
NoNoise == [pos |-> 0, writers |-> {}]

\* A segment of the track: how it was rendered, its length, the pitch of a
\* sine, whether the exp(-5t) envelope was applied, whose sample it is, and
\* the state of the generator its noise was drawn in.
Segment(mode, len, freq, envelope, owner, noise) ==
    [mode |-> mode, len |-> len, freq |-> freq, envelope |-> envelope,
     owner |-> owner, noise |-> noise]

\* Lines 139-150 for one sample; not ok when np.interp is given no points.
Conform(sample, target_len) ==
    IF sample.sr # SampleRate /\ sample.len = 0
    THEN [ok |-> FALSE,
          seg |-> Segment("sample", 0, NoFrequency, FALSE, sample.owner, NoNoise)]
    ELSE LET resampled == IF sample.sr # SampleRate THEN target_len ELSE sample.len
             fitted == IF resampled > target_len THEN target_len
                       ELSE resampled + (target_len - resampled)
         IN  [ok |-> TRUE,
              seg |-> Segment("sample", fitted, NoFrequency, FALSE, sample.owner,
                              NoNoise)]

\* Line 157 and line 159: freq_map.get(element, 180.0), in hertz.
KickHz == 60
SnareHz == 180
HiHatHz == 300
DefaultHz == 180
freq_map(element) ==
    CASE element = "Kick" -> KickHz
      [] element = "Snare" -> SnareHz
      [] element = "Hi~hat" -> HiHatHz
      [] OTHER -> DefaultHz

\* Line 162: the event is rendered as noise.
IsNoise(element) == element = "Hi~hat"

\* Lines 158-166 for one event, the generator being in state gen.
SynthSegment(element, target_len, gen) ==
    Segment(IF IsNoise(element) THEN "noise" ELSE "sine", target_len,
            Hz(freq_map(element)), TRUE, "synth",
            IF IsNoise(element) /\ target_len > 0 THEN gen ELSE NoNoise)

\* Line 163: np.random.uniform(-1, 1, size=t.shape) draws target_len doubles
\* from the generator, in a call of session s.
Draw(gen, element, target_len, s) ==
    IF IsNoise(element) /\ target_len > 0
    THEN [pos |-> gen.pos + target_len, writers |-> gen.writers \cup {s}]
    ELSE gen

RECURSIVE TotalLen(_)
TotalLen(segs) == IF segs = <<>> THEN 0 ELSE Head(segs).len + TotalLen(Tail(segs))

\* _write_wav seen from a track: it raises on an empty waveform (np.max of
\* an empty array) and returns the encoded bytes otherwise.
WavRaises(total) == total = 0

\* A call: its arguments, the loop it is in and the event i that loop is at,
\* what the lookups made so far returned, segments_sample, segments, and how
\* it ended.
Idle ==
    [status |-> "idle", fn |-> "none", session |-> "none", pattern |-> <<>>,
     melody |-> <<>>, files |-> <<>>, q |-> 0, phase |-> "none", i |-> 0,
     lookups |-> <<>>, acc |-> <<>>, path |-> "none", segs |-> <<>>,
     handed |-> FALSE, handed_len |-> 0, rate |-> 0]

Call(fn, s, pattern, melody, files, q) ==
    [status |-> "running", fn |-> fn, session |-> s, pattern |-> pattern,
     melody |-> melody, files |-> files, q |-> q, phase |-> "try", i |-> 1,
     lookups |-> <<>>, acc |-> <<>>, path |-> "none", segs |-> <<>>,
     handed |-> FALSE, handed_len |-> 0, rate |-> 0]

\* The call ends: by the path taken, with the segments rendered; `handed` says
\* whether a waveform reached _write_wav, and status whether bytes came back.
Finish(call, path, segs, handed, total, rate, raised) ==
    [call EXCEPT !.status = IF raised THEN "error" ELSE "ok",
                 !.phase = "done",
                 !.path = path, !.segs = segs, !.handed = handed,
                 !.handed_len = total, !.rate = rate]

\* Lines 153-156: the exception of the try block is dropped and the second
\* loop starts, on the first event and with no segment.
ToSynth(call) == [call EXCEPT !.phase = "synth", !.i = 1, !.segs = <<>>]

\* Lines 136-150 for event call.i: one reading of CUSTOM_SAMPLES, one
\* download at most.  A lookup that raises or returns no sample, and a sample
\* np.interp refuses, end the try block.
TryLookup(call, custom, download) ==
    LET got == get_sample(call.pattern[call.i], custom, download)
        looked == [call EXCEPT !.lookups = Append(@, got)]
    IN  IF got.kind # "sample" THEN ToSynth(looked)
        ELSE LET c == Conform(got.sample, TargetLen(call.q))
             IN  IF ~c.ok THEN ToSynth(looked)
                 ELSE [looked EXCEPT !.acc = Append(@, c.seg), !.i = @ + 1]

\* Lines 151-152, after the loop and still inside the try: np.concatenate
\* raises on no segments, _write_wav on an empty waveform.
SampleTail(call) ==
    IF call.acc # <<>> /\ ~WavRaises(TotalLen(call.acc))
    THEN Finish(call, "sample", call.acc, TRUE, TotalLen(call.acc), SampleRate,
                FALSE)
    ELSE ToSynth(call)

\* Lines 158-166 for event call.i.
SynthStep(call, gen) ==
    [call EXCEPT !.segs = Append(@, SynthSegment(call.pattern[call.i],
                                                 TargetLen(call.q), gen)),
                 !.i = @ + 1]

\* Lines 167-168: np.concatenate raises on no segments (ValueError), and
\* _write_wav on an empty waveform.
SynthTail(call) ==
    IF call.segs = <<>>
    THEN Finish(call, "synth", <<>>, FALSE, 0, 0, TRUE)
    ELSE Finish(call, "synth", call.segs, TRUE, TotalLen(call.segs), SampleRate,
                WavRaises(TotalLen(call.segs)))

\* Lines 115-127 are no valid Python: line 119 is indented under no block
\* (IndentationError), so the function is never defined and a call of it
\* renders nothing, whatever its arguments.
generate_melody_audio(call) == Finish(call, "none", <<>>, FALSE, 0, 0, TRUE)

\* Lines 266-321 are no valid Python either: the else of line 320 is indented
\* under the body of the elif (SyntaxError), so main is never defined, the
\* call of line 324 fails and lines 292-298 never store a file.
main(call) == Finish(call, "none", <<>>, FALSE, 0, 0, TRUE)

(***************************************************************************)
(* hook_generator (lines 171-198)                                          *)
(*                                                                         *)
(* The twelve hooks of lines 177-188 are distinct strings; they are        *)
(* modelled by their positions in the list.                                *)
(***************************************************************************)
NumHooks == 12

hooks == 1..NumHooks

EmptyState == [k \in {} |-> {}]

\* Lines 190-191.
EnsureUsedHooks(state) ==
    IF "used_hooks" \in DOMAIN state THEN state
    ELSE [k \in DOMAIN state \cup {"used_hooks"} |->
             IF k = "used_hooks" THEN {} ELSE state[k]]

\* Line 193.
NeedsReset(used) == Cardinality(used) >= NumHooks

\* A mutation of Remaining: the used hooks are not filtered out.
RemainingUnfiltered(used) == hooks

\* Line 195.
Remaining(used) == {h \in hooks : h \notin used}

NoDraw ==
    [before |-> {}, cleared |-> FALSE, used |-> {}, remaining |-> {},
     hook |-> 0, raised |-> FALSE]

(***************************************************************************)
(* The state machines                                                      *)
(***************************************************************************)
PitchIdle == note = <<>> /\ noteRes = NotResolved
WavIdle   == samples = <<>> /\ wavRes = WavPending
TrackIdle ==
    /\ CUSTOM_SAMPLES = EmptyDict
    /\ np_random = Unused
    /\ out = [s \in Sessions |-> Idle]
HookIdle  == /\ session_state = EmptyState
             /\ shown = 0
             /\ clicks = 0
             /\ lastDraw = NoDraw

\* ---- SpecPitch: one token, resolved once.
InitPitch ==
    /\ part = "pitch"
    /\ note \in SeqUpTo(TokenChars, MaxTokenLen)
    /\ noteRes = NotResolved
    /\ WavIdle /\ TrackIdle /\ HookIdle

Resolve ==
    /\ noteRes.status = "pending"
    /\ noteRes' = _note_to_frequency(note)
    /\ UNCHANGED <<part, note, wavVars, trackVars, hookVars>>

NextPitch == Resolve

SpecPitch == InitPitch /\ [][NextPitch]_vars

\* ---- SpecWav: one buffer, encoded once.
InitWav ==
    /\ part = "wav"
    /\ samples \in SeqUpTo(-MaxAmp..MaxAmp, MaxBufLen)
    /\ wavRes = WavPending
    /\ PitchIdle /\ TrackIdle /\ HookIdle

Encode ==
    /\ wavRes.status = "pending"
    /\ \E nan_cast \in NaNCast : wavRes' = _write_wav(samples, nan_cast)
    /\ UNCHANGED <<part, samples, pitchVars, trackVars, hookVars>>

NextWav == Encode

SpecWav == InitWav /\ [][NextWav]_vars

\* ---- SpecTrack: two sessions run the page and call the generators.
InitTrack ==
    /\ part = "track"
    /\ TrackIdle
    /\ PitchIdle /\ WavIdle /\ HookIdle

\* A page run of session s, its uploader holding some files: the script is
\* executed from the top, line 45 binds CUSTOM_SAMPLES to an empty dictionary
\* and line 324 calls main.
MainRun(s) ==
    /\ out[s].status = "idle"
    /\ \E files \in SeqUpTo(UploadFiles, MaxUploads) :
          out' = [out EXCEPT ![s] = main(Call("main", s, <<>>, <<>>, files, 0))]
    /\ CUSTOM_SAMPLES' = EmptyDict
    /\ UNCHANGED <<part, np_random, pitchVars, wavVars, hookVars>>

\* Session s calls generate_drum_audio (line 129).
StartDrum(s) ==
    /\ out[s].status = "idle"
    /\ np_random.pos < TargetLen(MaxDrawn)
    /\ \E pattern \in SeqUpTo(DrumTokens, MaxPattern), q \in 0..MaxQuarters :
          out' = [out EXCEPT ![s] = Call("drum", s, pattern, <<>>, <<>>, q)]
    /\ UNCHANGED <<part, CUSTOM_SAMPLES, np_random, pitchVars, wavVars, hookVars>>

\* One turn of the loop of lines 135-150.
DrumLookup(s) ==
    /\ out[s].status = "running" /\ out[s].fn = "drum" /\ out[s].phase = "try"
    /\ out[s].i <= Len(out[s].pattern)
    /\ \E download \in
            IF ReachesDownload(out[s].pattern[out[s].i], CUSTOM_SAMPLES)
            THEN Downloads ELSE {NoDownload} :
          out' = [out EXCEPT ![s] = TryLookup(out[s], CUSTOM_SAMPLES, download)]
    /\ UNCHANGED <<part, CUSTOM_SAMPLES, np_random, pitchVars, wavVars, hookVars>>

\* The loop of the try block is over (lines 151-152).
DrumTail(s) ==
    /\ out[s].status = "running" /\ out[s].fn = "drum" /\ out[s].phase = "try"
    /\ out[s].i > Len(out[s].pattern)
    /\ out' = [out EXCEPT ![s] = SampleTail(out[s])]
    /\ UNCHANGED <<part, CUSTOM_SAMPLES, np_random, pitchVars, wavVars, hookVars>>

\* One turn of the loop of lines 158-166.
DrumSynth(s) ==
    /\ out[s].status = "running" /\ out[s].fn = "drum" /\ out[s].phase = "synth"
    /\ out[s].i <= Len(out[s].pattern)
    /\ out' = [out EXCEPT ![s] = SynthStep(out[s], np_random)]
    /\ np_random' = Draw(np_random, out[s].pattern[out[s].i],
                         TargetLen(out[s].q), s)
    /\ UNCHANGED <<part, CUSTOM_SAMPLES, pitchVars, wavVars, hookVars>>

\* The second loop is over (lines 167-168).
DrumEnd(s) ==
    /\ out[s].status = "running" /\ out[s].fn = "drum" /\ out[s].phase = "synth"
    /\ out[s].i > Len(out[s].pattern)
    /\ out' = [out EXCEPT ![s] = SynthTail(out[s])]
    /\ UNCHANGED <<part, CUSTOM_SAMPLES, np_random, pitchVars, wavVars, hookVars>>

\* Session s calls generate_melody_audio (line 219).
GenerateMelody(s) ==
    /\ out[s].status = "idle"
    /\ \E melody \in SeqUpTo(MelodyTokens, MaxPattern), q \in 0..MaxQuarters :
          out' = [out EXCEPT ![s] =
                     generate_melody_audio(Call("melody", s, <<>>, melody, <<>>, q))]
    /\ UNCHANGED <<part, CUSTOM_SAMPLES, np_random, pitchVars, wavVars, hookVars>>

\* The caller takes the bytes, or the exception (lines 219-220, 241-242, 324).
Consume(s) ==
    /\ out[s].status \in {"ok", "error"}
    /\ out' = [out EXCEPT ![s] = Idle]
    /\ UNCHANGED <<part, CUSTOM_SAMPLES, np_random, pitchVars, wavVars, hookVars>>

NextTrack ==
    \/ \E s \in Sessions : MainRun(s)
    \/ \E s \in Sessions : StartDrum(s)
    \/ \E s \in Sessions : DrumLookup(s)
    \/ \E s \in Sessions : DrumTail(s)
    \/ \E s \in Sessions : DrumSynth(s)
    \/ \E s \in Sessions : DrumEnd(s)
    \/ \E s \in Sessions : GenerateMelody(s)
    \/ \E s \in Sessions : Consume(s)

SpecTrack == InitTrack /\ [][NextTrack]_vars

\* ---- SpecHooks: page runs of the hook generator in one session.
InitHooks ==
    /\ part = "hooks"
    /\ session_state = EmptyState
    /\ shown = 0
    /\ clicks = 0
    /\ lastDraw = NoDraw
    /\ PitchIdle /\ WavIdle /\ TrackIdle

\* A run in which the button was not clicked (lines 190-192).
RunWithoutClick ==
    /\ session_state' = EnsureUsedHooks(session_state)
    /\ shown' = 0
    /\ UNCHANGED <<part, clicks, lastDraw, pitchVars, wavVars, trackVars>>

\* A run in which 'Generate Hook' was clicked (lines 190-198).
RunWithClick ==
    /\ clicks < MaxClicks
    /\ ~lastDraw.raised
    /\ LET state == EnsureUsedHooks(session_state)
           before == state["used_hooks"]
           cleared == NeedsReset(before)
           used == IF cleared THEN {} ELSE before
           remaining == Remaining(used)
       IN  IF remaining = {}
           THEN \* random.choice of an empty list raises IndexError
                /\ session_state' = [state EXCEPT !["used_hooks"] = used]
                /\ shown' = 0
                /\ lastDraw' = [before |-> before, cleared |-> cleared,
                                used |-> used, remaining |-> remaining,
                                hook |-> 0, raised |-> TRUE]
           ELSE \E hook \in remaining :
                /\ session_state' = [state EXCEPT !["used_hooks"] = used \cup {hook}]
                /\ shown' = hook
                /\ lastDraw' = [before |-> before, cleared |-> cleared,
                                used |-> used, remaining |-> remaining,
                                hook |-> hook, raised |-> FALSE]
    /\ clicks' = clicks + 1
    /\ UNCHANGED <<part, pitchVars, wavVars, trackVars>>

NextHooks == RunWithoutClick \/ RunWithClick

SpecHooks == InitHooks /\ [][NextHooks]_vars

\* ---- Spec: any one of the four parts.
Init == InitPitch \/ InitWav \/ InitTrack \/ InitHooks

Next ==
    \/ part = "pitch" /\ NextPitch
    \/ part = "wav" /\ NextWav
    \/ part = "track" /\ NextTrack
    \/ part = "hooks" /\ NextHooks

Spec == Init /\ [][Next]_vars

(***************************************************************************)
(* The claims                                                              *)
(***************************************************************************)
Range(f) == {f[i] : i \in DOMAIN f}

\* The calls of the sessions.
Calls == {out[s] : s \in Sessions}

DrumDone(c) == c.fn = "drum" /\ c.status \in {"ok", "error"}
MelodyDone(c) == c.fn = "melody" /\ c.status \in {"ok", "error"}

\* C1: in generate_drum_audio every event whose lookup yields a sample is
\* rendered from that sample and only the others are synthesized, whatever
\* the lookups of the other events of the pattern did.
C1_PerEventDecision ==
    \A c \in Calls :
        (DrumDone(c) /\ c.pattern # <<>> /\ c.q > 0) =>
            /\ c.status = "ok"
            /\ Len(c.segs) = Len(c.pattern)
            /\ \A i \in 1..Len(c.lookups) :
                  IF c.lookups[i].kind = "sample" /\ c.lookups[i].sample.len > 0
                  THEN /\ c.segs[i].mode = "sample"
                       /\ c.segs[i].owner = c.lookups[i].sample.owner
                  ELSE c.segs[i].mode \in {"sine", "noise"}

\* Every sample a lookup of the call yielded is non-empty.
SamplesNonEmpty(c) ==
    \A i \in 1..Len(c.lookups) :
        c.lookups[i].kind = "sample" => c.lookups[i].sample.len > 0

EventsOf(c) == IF c.fn = "drum" THEN c.pattern ELSE c.melody

\* C2: generate_drum_audio and generate_melody_audio hand _write_wav a
\* waveform of N * int(44100 * d) samples at 44100 Hz, every one of the N
\* events contributing int(44100 * d) of them, whether the lookups yielded
\* samples (of any rate and any length > 0), nothing, or failed.
C2_WaveformLength ==
    \A c \in Calls :
        ((DrumDone(c) \/ MelodyDone(c)) /\ EventsOf(c) # <<>> /\ c.q > 0
            /\ SamplesNonEmpty(c)) =>
            /\ c.handed
            /\ c.handed_len = Len(EventsOf(c)) * TargetLen(c.q)
            /\ c.rate = SampleRate
            /\ Len(c.segs) = Len(EventsOf(c))
            /\ \A i \in 1..Len(c.segs) : c.segs[i].len = TargetLen(c.q)

\* C3: a generation call with an empty pattern (no external sample being
\* supplied: no event, no lookup) ends without an error, a zero-length
\* waveform being encoded. Stated on generate_drum_audio, the generator
\* that runs: generate_melody_audio fails before it reads its pattern.
C3_EmptyPattern ==
    \A c \in Calls :
        (DrumDone(c) /\ c.pattern = <<>>) =>
            /\ c.status = "ok"
            /\ c.handed
            /\ c.handed_len = 0

\* C4: _write_wav never divides by a zero peak: an all-zero buffer of length
\* N is encoded as N zero PCM samples without a division, and with a peak
\* above zero every PCM value lies in -32767..32767.
C4_SilenceBranch ==
    (wavRes.status # "pending" /\ samples # <<>>) =>
        /\ (\A i \in 1..Len(samples) : samples[i] = 0) =>
              /\ wavRes.status = "ok"
              /\ ~wavRes.zero_division
              /\ wavRes.pcm = [i \in 1..Len(samples) |-> 0]
        /\ (\E i \in 1..Len(samples) : samples[i] # 0) =>
              /\ wavRes.status = "ok"
              /\ Len(wavRes.pcm) = Len(samples)
              /\ \A i \in 1..Len(samples) :
                    wavRes.pcm[i] \in -PCM_SCALE..PCM_SCALE

Resolved == noteRes.status # "pending"

ValidLetter == note # <<>> /\ note[1] \in NoteLetters

\* The characters after the letter that are no accidentals.
Suffix == SelectSeq(Tail(note), LAMBDA ch : ch \notin Accidentals)

\* What int() accepts, stated by positions: blanks, then at most one sign,
\* then from i to j digits and single underscores with a digit at both ends,
\* then blanks.
IntAccepts(t) ==
    \E i \in 1..Len(t) : \E j \in i..Len(t) :
        /\ \A k \in 1..(i - 1) : t[k] = " " \/ (k = i - 1 /\ t[k] \in Signs)
        /\ \A k \in (j + 1)..Len(t) : t[k] = " "
        /\ t[i] \in AnyDigits /\ t[j] \in AnyDigits
        /\ \A k \in i..j : t[k] \in AnyDigits \cup {"_"}
        /\ \A k \in i..(j - 1) : ~(t[k] = "_" /\ t[k + 1] = "_")

\* There is an octave suffix, and it is no integer literal.
MalformedSuffix == Suffix # <<>> /\ ~IntAccepts(Suffix)

\* No character after the letter but accidentals.
NoOctaveSuffix == \A i \in 2..Len(note) : note[i] \in Accidentals

\* The offset of the resolved token's letter and accidental in octave 4.
OffsetInOctave4 ==
    note_map[note[1]]
    + (IF AccidentalOf(Tail(note)) = "#" THEN 1
       ELSE IF AccidentalOf(Tail(note)) = "b" THEN -1 ELSE 0)
    - 9

\* C5 as amended: _note_to_frequency fails on a first character that is no
\* note letter, fails as well (ValueError) on a valid letter with an octave
\* suffix int() rejects, and resolves a token without octave suffix in
\* octave 4.
C5_StrictOctave ==
    Resolved =>
        /\ (note # <<>> /\ note[1] \notin NoteLetters) =>
              noteRes.status \in {"KeyError", "ValueError"}
        /\ (ValidLetter /\ MalformedSuffix) => noteRes.status = "ValueError"
        /\ (ValidLetter /\ NoOctaveSuffix) =>
              /\ noteRes.status = "ok"
              /\ noteRes.octave = 4
              /\ noteRes.offset = OffsetInOctave4

\* C5 as claimed: _note_to_frequency fails on a first character that is no
\* note letter, but on a valid letter with a malformed octave suffix it does
\* not fail and resolves the note as if the octave were 4, as it does for a
\* token without octave suffix.
C5_LenientOctave ==
    Resolved =>
        /\ (note # <<>> /\ note[1] \notin NoteLetters) =>
              noteRes.status \in {"KeyError", "ValueError"}
        /\ (ValidLetter /\ MalformedSuffix) =>
              /\ noteRes.status = "ok"
              /\ noteRes.octave = 4
              /\ noteRes.offset = OffsetInOctave4
        /\ (ValidLetter /\ NoOctaveSuffix) =>
              /\ noteRes.status = "ok"
              /\ noteRes.octave = 4
              /\ noteRes.offset = OffsetInOctave4

\* A valid letter with a malformed octave suffix was resolved, and failed.
C5_Witness ==
    /\ note = <<"C", "#", "x">>
    /\ noteRes.status = "ValueError"

\* C6: on the synthesis path of generate_drum_audio every Hi-hat event of
\* the interface is rendered as noise, every Kick or Snare event as a sine,
\* and every segment carries the exp(-5t) envelope.
C6_ModeByClass ==
    \A c \in Calls :
        (DrumDone(c) /\ c.path = "synth" /\ c.status = "ok") =>
            \A i \in 1..Len(c.pattern) :
                /\ c.pattern[i] = "Hi-hat" => c.segs[i].mode = "noise"
                /\ c.pattern[i] \in {"Kick", "Snare"} => c.segs[i].mode = "sine"
                /\ c.segs[i].envelope

\* C7: the output a generation call returns depends only on its own
\* arguments and on the samples its own session supplied: no segment is
\* rendered from a sample another session uploaded, nor from state another
\* session's call has written.
C7_SessionsIndependent ==
    \A c \in Calls :
        ((DrumDone(c) \/ MelodyDone(c)) /\ c.status = "ok") =>
            \A i \in 1..Len(c.segs) :
                /\ c.segs[i].owner \in {c.session, "net", "synth"}
                /\ c.segs[i].noise.writers \subseteq {c.session}

WholeTonePairs ==
    {<<"C", "D">>, <<"D", "E">>, <<"F", "G">>, <<"G", "A">>, <<"A", "B">>}

\* C8: the distance from A4 is semitone_from_C + accidental + (octave-4)*12
\* - 9, X#n and Yb n of a whole-tone pair X/Y get the same distance and the
\* same frequency in every octave n of 0..9, A4 is at distance 0 (440 Hz) and
\* A5 at distance 12 (880 Hz).
C8_Enharmonic ==
    (noteRes.status = "ok") =>
        /\ \A pair \in WholeTonePairs : \A d \in Digits :
              (note = <<pair[1], "#", d>>) =>
                 LET flat == _note_to_frequency(<<pair[2], "b", d>>)
                 IN  /\ flat.status = "ok"
                     /\ flat.offset = noteRes.offset
                     /\ flat.freq = noteRes.freq
        /\ (Len(note) = 3 /\ note[2] \in Accidentals /\ note[3] \in Digits) =>
              noteRes.offset = note_map[note[1]]
                               + (IF note[2] = "#" THEN 1 ELSE -1)
                               + (DigitVal(note[3]) - 4) * 12 - 9
        /\ (Len(note) = 2 /\ note[2] \in Digits) =>
              noteRes.offset = note_map[note[1]] + (DigitVal(note[2]) - 4) * 12 - 9
        /\ (note = <<"A", "4">>) =>
              noteRes.offset = 0 /\ noteRes.freq = [centi |-> 44000, exp |-> 0]
        /\ (note = <<"A", "5">>) =>
              noteRes.offset = 12 /\ noteRes.freq = [centi |-> 44000, exp |-> 1]

\* C#4 was resolved, one semitone above C4.
C8_Witness ==
    /\ note = <<"C", "#", "4">>
    /\ noteRes.status = "ok"
    /\ noteRes.offset = -8

\* C9: a drum pattern holding a token that is no drum label makes
\* generate_drum_audio fail, no audio being rendered or returned.
C9_InvalidTokenFails ==
    \A c \in Calls :
        (DrumDone(c) /\ "Cowbell" \in Range(c.pattern) /\ c.q > 0) =>
            /\ c.status = "error"
            /\ ~c.handed

UsedHooks ==
    IF "used_hooks" \in DOMAIN session_state THEN session_state["used_hooks"]
    ELSE {}

\* C10: over any sequence of clicks used_hooks is a subset of the 12 hooks,
\* the remaining hooks are never empty at a draw, the hook drawn is not in
\* used_hooks, used_hooks is cleared only by a click that finds all 12 used,
\* and the clicks 12k+1 .. 12k+12 draw 12 distinct hooks.
C10_HookRotation ==
    /\ UsedHooks \subseteq hooks
    /\ (clicks = 0) => UsedHooks = {}
    /\ (clicks > 0) =>
          /\ ~lastDraw.raised
          /\ lastDraw.remaining # {}
          /\ lastDraw.hook \in lastDraw.remaining
          /\ lastDraw.hook \notin lastDraw.used
          /\ lastDraw.cleared <=> (lastDraw.before = hooks)
          /\ ~lastDraw.cleared => lastDraw.used = lastDraw.before
          /\ UsedHooks = lastDraw.used \cup {lastDraw.hook}
          /\ Cardinality(UsedHooks) = ((clicks - 1) % NumHooks) + 1

\* The thirteenth click found all 12 hooks used, cleared them and drew.
C10_Witness ==
    /\ clicks = NumHooks + 1
    /\ lastDraw.cleared
    /\ Cardinality(lastDraw.before) = NumHooks
    /\ UsedHooks = {lastDraw.hook}

====
